---- MODULE Spec2Model ----
(***************************************************************************)
(* Model of the SystemWorld of cli/src/main.rs: path identity resolution,  *)
(* the per-pass source/buffer cache, write staging and its flush, and the  *)
(* compile_once pass driven by compile().                                  *)
(***************************************************************************)
EXTENDS Integers, Sequences, FiniteSets, TLC

(***************************************************************************)
(* Bounds of the exploration.                                              *)
(***************************************************************************)
\* world calls the compiler issues over the run, besides resolving the input
MaxCalls == 2
\* filesystem changes made by other processes over the run
MaxEnv == 1
\* events the loop of compile() takes from the channel in one batch
MaxBatch == 2
\* pages of the largest document
MaxPages == 150

(***************************************************************************)
(* The filesystem seen by the program.  A file object is named by the      *)
(* inode its OS handle carries; several path spellings lead to one file.   *)
(***************************************************************************)
FileA == 1
FileB == 2
RootDir == 3
FileOut == 4
Files == {FileA, FileB, RootDir, FileOut}
\* the files the compiler and other processes work on
RegularFiles == {FileA, FileB}

\* path strings used as keys of SystemWorld.hashes and as call arguments
\* ("./a" spells "a" with a CurDir component; "lb" is a symbolic link to "b")
Paths == {"/r/a", "a", "./a", "/r/b", "b", "lb", "/"}
\* the paths the compiler passes to resolve/read/write
CallPaths == {"./a", "b", "lb", "/"}
\* command.input
InputPath == "a"

\* command.output as the events of the watcher spell it
OutPath == "/r/out"

\* the file a path spelling leads to
FileOf(p) ==
    CASE p \in {"/r/a", "a", "./a"} -> FileA
      [] p \in {"/r/b", "b", "lb"} -> FileB
      [] p = OutPath -> FileOut
      [] OTHER -> RootDir

\* the absolute, symlink-free spelling std::fs::canonicalize returns
CanonOf(p) ==
    CASE p \in {"/r/a", "a", "./a"} -> "/r/a"
      [] p \in {"/r/b", "b", "lb"} -> "/r/b"
      [] p = OutPath -> OutPath
      [] OTHER -> "/"

\* Path::parent(): None only for the root
HasParent(p) == p # "/"

\* PathExt::normalize: drops CurDir components, folds `x/..`
normalize(p) == IF p = "./a" THEN "a" ELSE p

(***************************************************************************)
(* Bytes and text.                                                         *)
(***************************************************************************)
BOM == <<239, 187, 191>>
H == <<104>>
Hi == <<104, 105>>
BomHi == BOM \o Hi
Bad == <<255>>
BomBad == BOM \o Bad
\* contents other processes give to files
EnvContents == {BomHi, Bad, BomBad}
\* order keys and payloads of write()
\* the (order key, payload) pairs the compiler passes to write()
WriteArgs == {<<5, <<98>>>>, <<1, <<97>>>>, <<1, <<65>>>>}

\* the clock at startup: an hour before midnight of day 0 (UTC)
StartClock == 23

\* values of command.output, as the pieces of the path string
PdfOutput == <<"/r/out", ".pdf">>
PngOutput == <<"/r/out", ".png">>
PngNumbered == <<"/r/out-", "{n}", ".png">>
Outputs == {PdfOutput, PngOutput, PngNumbered}
\* document.pages.len() of the documents typst::compile returns
PageCounts == {0, 1, 2, 9, 10, 12, 99, 100, MaxPages}
\* the bytes export writes for a document
Rendered == <<37>>

Ok(v) == [ok |-> TRUE, v |-> v]
Err(e) == [ok |-> FALSE, v |-> e]
Unset == [ok |-> FALSE, v |-> "unset"]

starts_with(buf, pre) ==
    /\ Len(buf) >= Len(pre)
    /\ SubSeq(buf, 1, Len(pre)) = pre

IsCont(b) == b >= 128 /\ b <= 191

\* std::str::from_utf8's acceptance test
RECURSIVE IsUtf8(_)
IsUtf8(s) ==
    IF s = <<>> THEN TRUE
    ELSE LET b == s[1] n == Len(s) IN
      IF b < 128 THEN IsUtf8(Tail(s))
      ELSE IF b >= 194 /\ b <= 223
        THEN n >= 2 /\ IsCont(s[2]) /\ IsUtf8(SubSeq(s, 3, n))
      ELSE IF b >= 224 /\ b <= 239
        THEN /\ n >= 3 /\ IsCont(s[2]) /\ IsCont(s[3])
             /\ (b = 224 => s[2] >= 160)
             /\ (b = 237 => s[2] <= 159)
             /\ IsUtf8(SubSeq(s, 4, n))
      ELSE IF b >= 240 /\ b <= 244
        THEN /\ n >= 4 /\ IsCont(s[2]) /\ IsCont(s[3]) /\ IsCont(s[4])
             /\ (b = 240 => s[2] >= 144)
             /\ (b = 244 => s[2] <= 143)
             /\ IsUtf8(SubSeq(s, 5, n))
      ELSE FALSE

\* the decoding without the removal of the BOM
DecodeKeepingBom(buf) ==
    IF IsUtf8(buf) THEN Ok(buf) ELSE Err("InvalidUtf8")

\* the closure body of SystemWorld::resolve after the read: BOM removal
\* and UTF-8 validation
Decode(buf) ==
    IF starts_with(buf, BOM)
      THEN IF IsUtf8(SubSeq(buf, 4, Len(buf)))
             THEN Ok(SubSeq(buf, 4, Len(buf))) ELSE Err("InvalidUtf8")
      ELSE IF IsUtf8(buf) THEN Ok(buf) ELSE Err("InvalidUtf8")

(***************************************************************************)
(* State.                                                                  *)
(***************************************************************************)
VARIABLES
    exists,     \* disk: which files exist
    content,    \* disk: the bytes of each file
    hashes,     \* SystemWorld.hashes: path -> FileResult<PathHash>
    paths,      \* SystemWorld.paths: PathHash -> PathSlot
    sources,    \* SystemWorld.sources: the arena of decoded sources
    wpaths,     \* WriteStorage: PathHash -> WriteBuffer
    main,       \* SystemWorld.main
    watch,      \* command.watch
    pc,         \* where compile() stands
    ncalls,     \* world calls issued by the compiler
    nenv,       \* filesystem changes made by other processes
    ret,        \* history: the last world call and what it returned
    reads,      \* history: read() invocations per file and cache kind since reset
    truncs,     \* history: File::create invocations per file since reset
    intent,     \* history: the access mode that computed each entry of hashes
    touched,    \* history: the files requested since reset
    deps,       \* history: the paths read-intent resolution was asked for since reset
    staged,     \* history: the payload last passed to write(), per identity and key
    flushed,    \* history: what the flush of this pass wrote
    trail,      \* history: the steps compile_once took in this pass
    again,      \* history: this pass is not the first one
    output,     \* command.output
    pages,      \* document.pages.len() of the document compiled in this pass
    written,    \* history: the paths export wrote in this pass
    fonts,      \* SystemWorld.fonts: the FontSlots
    inits,      \* history: runs of the closure of font(), per slot
    recompile,  \* the flag `recompile` of the loop of compile()
    ev,         \* history: the event the loop handled last in this batch
    nev,        \* history: events of this batch handled so far
    nrel,       \* history: events of this batch kept and found relevant
    today,      \* SystemWorld.today
    clock,      \* the system clock, in hours
    ndates,     \* history: dates today() computed since reset
    queue,      \* the items sent into the channel and not yet received
    wait,       \* the time the pending rx.recv_timeout has waited, in ticks
    evicted,    \* history: comemo::evict ran after this pass
    fresh,      \* history: a world constructed at the last reset, given the
                \* calls of this pass
    nsources,   \* sources.len() of an arena whose sources are not spelled out
    issued,     \* for such an arena: the SourceId held by the slot of a file,
                \* and the index at which the file's source was pushed
    open,       \* command.open is Some(_)
    asked,      \* history: command.open was Some(_) at startup
    opens,      \* history: the calls of open_file, each with whether the loop
                \* had started the pass it followed
    dirs,       \* the font directories: their files, in file name order
    book,       \* FontSearcher.book: the FontInfos pushed so far
    stage       \* where FontSearcher::search stands

vars == <<exists, content, hashes, paths, sources, wpaths, main, watch, pc,
          ncalls, nenv, ret, reads, truncs, intent, touched, deps, staged,
          flushed, trail, again, output, pages, written, fonts, inits, recompile, ev,
          nev, nrel, today, clock, ndates, queue, wait, evicted, fresh,
          nsources, issued, open, asked, opens, dirs, book, stage>>

disk == <<exists, content>>
world == <<hashes, paths, sources, wpaths, main>>
history == <<ret, reads, truncs, intent, touched, deps, staged, flushed, trail,
             again>>
document == <<pages, written>>
catalog == <<fonts, inits>>
loop == <<recompile, ev, nev, nrel>>
calendar == <<today, clock, ndates>>
channel == <<queue, wait>>
arena == <<nsources, issued>>
opening == <<open, asked, opens>>
searcher == <<dirs, book, stage>>

Kinds == {"source", "buffer"}
Empty == [x \in {} |-> 0]
Put(f, k, v) == [x \in DOMAIN f \cup {k} |-> IF x = k THEN v ELSE f[x]]
NoRet == [op |-> "none", path |-> "", arg |-> <<>>, res |-> Unset, disk |-> Unset,
          first |-> FALSE]
NoReads == [x \in Files \X Kinds |-> 0]
NoTruncs == [f \in RegularFiles |-> 0]
NoEv == [kind |-> "none", paths |-> {}, same |-> FALSE, rel |-> FALSE]

(***************************************************************************)
(* Path identity.                                                          *)
(***************************************************************************)
\* hash128(&handle): the handle carries the file's identity and nothing of
\* the way it was opened; the hash is taken as injective
hash128(handle) == handle

\* PathHash::new with the access mode mixed into the identity
PathHashNewByMode(p, mode) ==
    IF mode = "R"
      THEN IF exists[FileOf(p)] THEN Ok(hash128(FileOf(p))) ELSE Err("NotFound")
      ELSE IF ~HasParent(p) THEN Err("AccessDenied")
           ELSE Ok(hash128(FileOf(p)) + 10)

\* PathHash::new hashing the path spelling instead of the handle
PathHashNewByPath(p, mode) ==
    LET spelled == IF p = normalize(p) THEN FileOf(p) ELSE FileOf(p) + 20 IN
    IF mode = "R"
      THEN IF exists[FileOf(p)] THEN Ok(spelled) ELSE Err("NotFound")
      ELSE IF ~HasParent(p) THEN Err("AccessDenied")
           ELSE Ok(spelled)

\* PathHash::new: the identity, or the error of opening / creating the file
PathHashNew(p, mode) ==
    IF mode = "R"
      THEN IF exists[FileOf(p)] THEN Ok(hash128(FileOf(p))) ELSE Err("NotFound")
      ELSE IF ~HasParent(p) THEN Err("AccessDenied")
           ELSE Ok(hash128(FileOf(p)))

\* whether PathHash::new gets as far as File::create
Creates(p, mode) == mode = "W" /\ HasParent(p)

\* the disk after PathHash::new: write access creates or truncates the file
ExistsAfterNew(p, mode) ==
    IF Creates(p, mode) THEN [exists EXCEPT ![FileOf(p)] = TRUE] ELSE exists
ContentAfterNew(p, mode) ==
    IF Creates(p, mode) THEN [content EXCEPT ![FileOf(p)] = <<>>] ELSE content

\* the raw and the canonical path of a read-intent resolution
Recorded(p) ==
    {p} \cup (IF exists[FileOf(p)] THEN {normalize(CanonOf(p))} ELSE {})

\* the lookup both slot() and wslot() start with
Cached(p) == p \in DOMAIN hashes

\* the FileResult<PathHash> that slot()/wslot() obtain for a path
SlotHash(p, mode) == IF Cached(p) THEN hashes[p] ELSE PathHashNew(p, mode)

\* a map keyed by path after slot()/wslot(): on a miss the value is stored
\* under the canonical path (when canonicalize succeeds) and the raw path
Remembered(map, p, mode, value) ==
    IF Cached(p) THEN map
    ELSE LET canonOk == ExistsAfterNew(p, mode)[FileOf(p)]
             withCanon == IF canonOk
                            THEN Put(map, normalize(CanonOf(p)), value)
                            ELSE map
         IN Put(withCanon, p, value)

\* slot()/wslot() remembering only the paths that gave an identity
HashesAfterOk(p, mode) ==
    IF PathHashNew(p, mode).ok
      THEN Remembered(hashes, p, mode, PathHashNew(p, mode)) ELSE hashes

HashesAfter(p, mode) == Remembered(hashes, p, mode, PathHashNew(p, mode))
IntentAfter(p, mode) == Remembered(intent, p, mode, mode)

EmptySlot == [source |-> Unset, buffer |-> Unset]
SlotOf(h) == IF h \in DOMAIN paths THEN paths[h] ELSE EmptySlot

\* OnceCell::get_or_init that runs its closure on every call
IsSetNever(cell) == FALSE

\* OnceCell: whether get_or_init finds the cell initialized
IsSet(cell) == cell.ok \/ cell.v # "unset"

\* read(): the bytes of a path, or why they cannot be had
ReadFile(p) ==
    IF ~exists[FileOf(p)] THEN Err("NotFound")
    ELSE IF FileOf(p) = RootDir THEN Err("IsDirectory")
    ELSE Ok(content[FileOf(p)])

\* `as u16`: the low 16 bits of a usize
U16 == 65536
as_u16(n) == n % U16

\* SystemWorld::insert: the id is the arena length as a u16
InsertId == as_u16(Len(sources))
Inserted(p, text) ==
    Append(sources, [id |-> InsertId, path |-> p, text |-> text])

\* SystemWorld::source
source(id) == sources[id + 1]

\* the get_or_init closure of SystemWorld::resolve
ResolveInit(p) ==
    IF ~exists[FileOf(p)] THEN Err("NotFound")
    ELSE LET buf == ReadFile(CanonOf(p)) IN
      IF ~buf.ok THEN buf
      ELSE LET text == Decode(buf.v) IN
        IF ~text.ok THEN text ELSE Ok(InsertId)

\* whether the closure of resolve gets as far as read()
ResolveReads(p) == exists[FileOf(p)]

(***************************************************************************)
(* A second world, constructed anew whenever the first is reset and given  *)
(* the same calls on the same files: w holds its hashes, paths, sources,   *)
(* today and fonts, the result `res` of its last call, and the number      *)
(* `extra` of fonts it had to load that the first world held already.      *)
(***************************************************************************)
\* FontSearcher: embedded fonts come parsed, fonts of files in empty cells
NewFonts ==
    [i \in DOMAIN fonts |->
        IF fonts[i].path = "" THEN fonts[i] ELSE [fonts[i] EXCEPT !.font = Unset]]

\* SystemWorld::new
NewWorld ==
    [hashes |-> Empty, paths |-> Empty, sources |-> <<>>,
     today |-> [ok |-> FALSE, v |-> "none"], fonts |-> NewFonts,
     res |-> Unset, extra |-> 0]

\* slot() / wslot() in w: the FileResult<PathHash> and the map afterwards
HashIn(w, p, mode) ==
    IF p \in DOMAIN w.hashes THEN w.hashes[p] ELSE PathHashNew(p, mode)
HashesIn(w, p, mode) ==
    IF p \in DOMAIN w.hashes THEN w.hashes
    ELSE LET value == PathHashNew(p, mode)
             withCanon == IF ExistsAfterNew(p, mode)[FileOf(p)]
                            THEN Put(w.hashes, normalize(CanonOf(p)), value)
                            ELSE w.hashes
         IN Put(withCanon, p, value)
SlotIn(w, h) == IF h \in DOMAIN w.paths THEN w.paths[h] ELSE EmptySlot

\* SystemWorld::resolve in w
ResolveIn(w, p) ==
    LET hash == HashIn(w, p, "R")
        seen == [w EXCEPT !.hashes = HashesIn(w, p, "R")] IN
    IF ~hash.ok THEN [seen EXCEPT !.res = hash]
    ELSE LET slot == SlotIn(w, hash.v) IN
      IF IsSet(slot.source)
        THEN [seen EXCEPT !.paths = Put(w.paths, hash.v, slot),
                          !.res = slot.source]
        ELSE LET buf == IF exists[FileOf(p)] THEN ReadFile(CanonOf(p))
                        ELSE Err("NotFound")
                 text == IF buf.ok THEN Decode(buf.v) ELSE buf
                 res == IF text.ok THEN Ok(Len(w.sources) % 65536) ELSE text
             IN [seen EXCEPT
                   !.paths = Put(w.paths, hash.v, [slot EXCEPT !.source = res]),
                   !.sources = IF res.ok
                                 THEN Append(w.sources,
                                             [id |-> res.v, path |-> CanonOf(p),
                                              text |-> text.v])
                                 ELSE w.sources,
                   !.res = res]

\* SystemWorld::read in w
ReadIn(w, p) ==
    LET hash == HashIn(w, p, "R")
        seen == [w EXCEPT !.hashes = HashesIn(w, p, "R")] IN
    IF ~hash.ok THEN [seen EXCEPT !.res = hash]
    ELSE LET slot == SlotIn(w, hash.v) IN
      IF IsSet(slot.buffer)
        THEN [seen EXCEPT !.paths = Put(w.paths, hash.v, slot),
                          !.res = slot.buffer]
        ELSE [seen EXCEPT
                !.paths = Put(w.paths, hash.v, [slot EXCEPT !.buffer = ReadFile(p)]),
                !.res = ReadFile(p)]

\* SystemWorld::write in w, as far as the read side sees it
WriteIn(w, p) ==
    [w EXCEPT !.hashes = HashesIn(w, p, "W"), !.res = Unset]

\* the FontInfo that FontInfo::iter / Font::info give for a face: it
\* describes face `index` of the file at `path`
FontInfoOf(path, index) == [path |-> path, index |-> index]

\* no font directory holds a file
NoDirs == [system |-> <<>>, user |-> <<>>]

\* FontSearcher::search is over and left the slots `fonts`
Searched ==
    /\ dirs = NoDirs
    /\ stage = "done"
    /\ book = [i \in DOMAIN fonts |-> FontInfoOf(fonts[i].path, fonts[i].index)]

\* the files at startup: the input exists, no output has been written yet
InitDisk ==
    /\ exists \in {e \in [Files -> BOOLEAN] :
                      e[RootDir] /\ e[FileOf(InputPath)] /\ ~e[FileOut]}
    /\ content = [f \in Files |-> IF f \in RegularFiles /\ exists[f] THEN H ELSE <<>>]

\* SystemWorld::new and the locals of compile() before the first pass
InitWorld ==
    /\ hashes = Empty
    /\ paths = Empty
    /\ sources = <<>>
    /\ wpaths = Empty
    /\ main = 0
    /\ pc = "boot"
    /\ pages = 0
    /\ recompile = FALSE
    /\ today = [ok |-> FALSE, v |-> "none"]
    /\ clock = StartClock
    /\ queue = <<>>
    /\ wait = 0
    /\ nsources = 0
    /\ issued = Empty

InitHistory ==
    /\ ncalls = 0
    /\ nenv = 0
    /\ ret = NoRet
    /\ reads = NoReads
    /\ truncs = NoTruncs
    /\ intent = Empty
    /\ touched = {}
    /\ deps = {}
    /\ staged = Empty
    /\ flushed = {}
    /\ trail = <<>>
    /\ again = FALSE
    /\ written = {}
    /\ ev = NoEv
    /\ nev = 0
    /\ nrel = 0
    /\ ndates = 0
    /\ evicted = FALSE
    /\ opens = <<>>

\* a run that writes a PDF and finds no font file
Init ==
    /\ InitDisk
    /\ InitWorld
    /\ InitHistory
    /\ watch \in BOOLEAN
    /\ output = PdfOutput
    /\ fonts = <<>>
    /\ inits = <<>>
    /\ fresh = NewWorld
    /\ open = FALSE
    /\ asked = open
    /\ Searched

(***************************************************************************)
(* The calls the compiler makes on the world during a pass.                *)
(***************************************************************************)
CanCall == pc = "eval" /\ ncalls < MaxCalls

Returned(op, p, res) ==
    [op |-> op, path |-> p, arg |-> <<>>, res |-> res, disk |-> ReadFile(p),
     first |-> FileOf(p) \notin touched]

\* what SystemWorld::resolve returns
ResolveResult(p) ==
    LET hash == SlotHash(p, "R") IN
    IF ~hash.ok THEN hash
    ELSE IF IsSet(SlotOf(hash.v).source) THEN SlotOf(hash.v).source
    ELSE ResolveInit(p)

\* SystemWorld::resolve, with SystemWorld::slot and SystemWorld::insert
ResolveEffect(p) ==
    LET hash == SlotHash(p, "R")
        res == ResolveResult(p) IN
    /\ hashes' = HashesAfter(p, "R")
    /\ intent' = IntentAfter(p, "R")
    /\ ret' = Returned("resolve", p, res)
    /\ touched' = touched \cup {FileOf(p)}
    /\ deps' = deps \cup (IF Cached(p) THEN {p} ELSE Recorded(p))
    /\ IF ~hash.ok
         THEN UNCHANGED <<paths, sources, reads>>
         ELSE LET slot == SlotOf(hash.v) IN
           IF IsSet(slot.source)
             THEN /\ paths' = Put(paths, hash.v, slot)
                  /\ UNCHANGED <<sources, reads>>
             ELSE /\ paths' = Put(paths, hash.v, [slot EXCEPT !.source = res])
                  /\ sources' = IF res.ok
                                  THEN Inserted(CanonOf(p), Decode(content[FileOf(p)]).v)
                                  ELSE sources
                  /\ reads' = IF ResolveReads(p)
                                THEN [reads EXCEPT ![<<FileOf(p), "source">>] = @ + 1]
                                ELSE reads

Resolve(p) ==
    /\ CanCall
    /\ ncalls' = ncalls + 1
    /\ ResolveEffect(p)
    /\ fresh' = ResolveIn(fresh, p)
    /\ UNCHANGED <<disk, wpaths, main, watch, pc, nenv, truncs, staged, flushed,
                   trail, again>>
    /\ UNCHANGED <<calendar, channel, evicted, arena, opening, searcher, output, document, catalog, loop>>

\* what SystemWorld::read returns
ReadResult(p) ==
    LET hash == SlotHash(p, "R") IN
    IF ~hash.ok THEN hash
    ELSE IF IsSet(SlotOf(hash.v).buffer) THEN SlotOf(hash.v).buffer
    ELSE ReadFile(p)

\* SystemWorld::read, with SystemWorld::slot
ReadEffect(p) ==
    LET hash == SlotHash(p, "R") IN
    /\ hashes' = HashesAfter(p, "R")
    /\ intent' = IntentAfter(p, "R")
    /\ touched' = touched \cup {FileOf(p)}
    /\ deps' = deps \cup (IF Cached(p) THEN {p} ELSE Recorded(p))
    /\ IF ~hash.ok
         THEN UNCHANGED <<paths, reads>>
         ELSE LET slot == SlotOf(hash.v) IN
           IF IsSet(slot.buffer)
             THEN /\ paths' = Put(paths, hash.v, slot)
                  /\ UNCHANGED reads
             ELSE /\ paths' = Put(paths, hash.v,
                                  [slot EXCEPT !.buffer = ReadFile(p)])
                  /\ reads' = [reads EXCEPT ![<<FileOf(p), "buffer">>] = @ + 1]

Read(p) ==
    /\ CanCall
    /\ ncalls' = ncalls + 1
    /\ ret' = Returned("read", p, ReadResult(p))
    /\ ReadEffect(p)
    /\ fresh' = ReadIn(fresh, p)
    /\ UNCHANGED <<disk, sources, wpaths, main, watch, pc, nenv, truncs, staged,
                   flushed, trail, again>>
    /\ UNCHANGED <<calendar, channel, evicted, arena, opening, searcher, output, document, catalog, loop>>

\* the bytes of a font file with one face
FontBytes == <<79, 84, 84, 79>>
None == [ok |-> FALSE, v |-> "none"]

\* Font::new(data, index): the face of that index, None when the data
\* cannot be parsed
FontNew(data, index) ==
    IF starts_with(data, FontBytes) /\ index = 0
      THEN Ok([data |-> data, index |-> index]) ELSE None

\* the FontSlots FontSearcher leaves: an embedded font, already parsed, and
\* the face found in the font file "/r/b"
EmbeddedSlot ==
    [path |-> "", index |-> 0, font |-> Ok([data |-> FontBytes, index |-> 0])]
FileSlot == [path |-> "/r/b", index |-> 0, font |-> Unset]

\* the closure of SystemWorld::font
FontInit(slot) ==
    LET data == ReadResult(slot.path) IN
    IF data.ok THEN FontNew(data.v, slot.index) ELSE None

\* SystemWorld::font in w
FontIn(w, id) ==
    LET slot == w.fonts[id + 1] IN
    IF IsSet(slot.font) THEN [w EXCEPT !.res = slot.font]
    ELSE LET seen == ReadIn(w, slot.path)
             font == IF seen.res.ok THEN FontNew(seen.res.v, slot.index) ELSE None
         IN [seen EXCEPT !.fonts[id + 1].font = font,
                         !.res = font,
                         !.extra = IF IsSet(fonts[id + 1].font) THEN @ + 1 ELSE @]

\* SystemWorld::font
FontEffect(id) ==
    /\ pc = "eval"
    /\ id < Len(fonts)
    /\ fresh' = FontIn(fresh, id)
    /\ LET slot == fonts[id + 1] IN
       IF IsSet(slot.font)
         THEN /\ ret' = [NoRet EXCEPT !.op = "font", !.arg = <<id>>,
                                       !.res = slot.font]
              /\ UNCHANGED <<hashes, intent, touched, deps, paths, reads, catalog>>
         ELSE /\ ReadEffect(slot.path)
              /\ fonts' = [fonts EXCEPT ![id + 1].font = FontInit(slot)]
              /\ inits' = [inits EXCEPT ![id + 1] = @ + 1]
              /\ ret' = [NoRet EXCEPT !.op = "font", !.arg = <<id>>,
                                       !.res = FontInit(slot)]
    /\ UNCHANGED <<disk, sources, wpaths, main, watch, pc, nenv, truncs, staged,
                   flushed, trail, again>>
    /\ UNCHANGED <<calendar, channel, evicted, arena, opening, searcher, output, document, loop>>

\* a font() call of the compiler
Font(id) ==
    /\ CanCall
    /\ ncalls' = ncalls + 1
    /\ FontEffect(id)

\* a font() call of the first pass, not counted among the calls of the run
FontUncounted(id) ==
    /\ ~again
    /\ ncalls' = ncalls
    /\ FontEffect(id)

\* the hours the clock shows over a run, and the hours in a day
ClockValues == {23, 24, 47}
DayHours == 24
\* the offset of the local time zone from UTC, in hours
LocalOffset == 0
\* the last day a Datetime can hold
LastDay == 1
\* the utc_offset arguments of today(): None, Some(-1), Some(1)
Offsets ==
    {[some |-> FALSE, hours |-> 0], [some |-> TRUE, hours |-> 0 - 1],
     [some |-> TRUE, hours |-> 1]}

\* chrono::Local::now().naive_local() and (Utc::now() + hours(o)).naive_utc(),
\* as the day the date-time falls on
datetime(offset) ==
    (clock + (IF offset.some THEN offset.hours ELSE LocalOffset)) \div DayHours

\* Datetime::from_ymd: None for a date out of its range
from_ymd(day) == IF day >= 0 /\ day <= LastDay THEN Ok(day) ELSE None

\* today() computing the date on every call
TodayUnsetAlways(cell) == TRUE

\* self.today.get().is_none()
TodayUnset(cell) == ~cell.ok

\* SystemWorld::today in w
TodayIn(w, offset) ==
    IF TodayUnset(w.today)
      THEN LET date == from_ymd(datetime(offset)) IN
           [w EXCEPT !.today = IF date.ok THEN date ELSE @, !.res = date]
      ELSE [w EXCEPT !.res = w.today]

\* SystemWorld::today: `?` leaves the cell empty when from_ymd gives None
Today(offset) ==
    /\ CanCall
    /\ ncalls' = ncalls + 1
    /\ fresh' = TodayIn(fresh, offset)
    /\ IF TodayUnset(today)
         THEN LET date == from_ymd(datetime(offset)) IN
              /\ today' = IF date.ok THEN date ELSE today
              /\ ndates' = IF date.ok THEN ndates + 1 ELSE ndates
              /\ ret' = [NoRet EXCEPT !.op = "today", !.arg = <<offset>>,
                                       !.res = date]
         ELSE /\ ret' = [NoRet EXCEPT !.op = "today", !.arg = <<offset>>,
                                       !.res = today]
              /\ UNCHANGED <<today, ndates>>
    /\ UNCHANGED <<disk, world, watch, pc, nenv, reads, truncs, intent, touched,
                   deps, staged, flushed, trail, again>>
    /\ UNCHANGED <<clock, channel, evicted, arena, opening, searcher, output, document, catalog, loop>>

\* WriteBuffer::write appending to a list instead of inserting at the key
WriteBuffer_push(buffer, at, data) ==
    Put(buffer, Cardinality(DOMAIN buffer) + 1, data)

\* WriteBuffer::write: BTreeMap::insert
WriteBuffer_write(buffer, at, data) == Put(buffer, at, data)

\* WriteStorage::write starting the identity's buffer afresh
WriteStorage_fresh(storage, h, at, data) ==
    Put(storage, h, WriteBuffer_write(Empty, at, data))

\* WriteStorage::write: entry(path).or_default().write(..)
WriteStorage_write(storage, h, at, data) ==
    Put(storage, h,
        WriteBuffer_write(IF h \in DOMAIN storage THEN storage[h] ELSE Empty,
                          at, data))

\* SystemWorld::write, with SystemWorld::wslot
Write(p, at, data) ==
    /\ CanCall
    /\ ncalls' = ncalls + 1
    /\ touched' = touched \cup {FileOf(p)}
    /\ deps' = deps
    /\ fresh' = WriteIn(fresh, p)
    /\ LET hash == SlotHash(p, "W") IN
       /\ hashes' = HashesAfter(p, "W")
       /\ intent' = IntentAfter(p, "W")
       /\ exists' = IF Cached(p) THEN exists ELSE ExistsAfterNew(p, "W")
       /\ content' = IF Cached(p) THEN content ELSE ContentAfterNew(p, "W")
       /\ truncs' = IF ~Cached(p) /\ Creates(p, "W")
                      THEN [truncs EXCEPT ![FileOf(p)] = @ + 1] ELSE truncs
       /\ IF ~hash.ok
            THEN /\ ret' = [NoRet EXCEPT !.op = "write", !.path = p,
                                          !.arg = <<at, data>>, !.res = hash]
                 /\ UNCHANGED <<wpaths, staged>>
            ELSE /\ ret' = [NoRet EXCEPT !.op = "write", !.path = p,
                                          !.arg = <<at, data>>, !.res = Ok("unit")]
                 /\ wpaths' = WriteStorage_write(wpaths, hash.v, at, data)
                 /\ staged' = Put(staged, <<hash.v, at>>, data)
    /\ UNCHANGED <<paths, sources, main, watch, pc, nenv, reads, flushed, trail,
                   again>>
    /\ UNCHANGED <<calendar, channel, evicted, arena, opening, searcher, output, document, catalog, loop>>

(***************************************************************************)
(* compile_once and the loop of compile().                                 *)
(***************************************************************************)
\* where compile() goes once a pass has returned Ok(_)
AfterPass == IF watch THEN "watch" ELSE "exit"

\* compile_once was called by the loop, which goes on to comemo::evict(30)
\* once it has returned Ok(_)
InLoop == watch /\ again

\* the watcher is set up: the first pass is over and the command goes on
Watching == watch /\ pc # "exit" /\ (again \/ pc \in {"watch", "drain"})

\* SystemWorld::reset that leaves the slots in place
ResetKeepingSlots ==
    /\ pc = "boot"
    /\ sources' = <<>>
    /\ hashes' = Empty
    /\ paths' = paths
    /\ pc' = "main"
    /\ ret' = NoRet
    /\ reads' = NoReads
    /\ truncs' = NoTruncs
    /\ intent' = Empty
    /\ touched' = {}
    /\ deps' = {}
    /\ flushed' = {}
    /\ trail' = <<>>
    /\ pages' = 0
    /\ written' = {}
    /\ ev' = NoEv
    /\ nev' = 0
    /\ nrel' = 0
    /\ today' = [ok |-> FALSE, v |-> "none"]
    /\ ndates' = 0
    /\ evicted' = FALSE
    /\ fresh' = NewWorld
    /\ UNCHANGED <<disk, wpaths, main, watch, ncalls, nenv, staged, again>>
    /\ UNCHANGED <<clock, channel, arena, opening, searcher, output, catalog, recompile>>

\* SystemWorld::reset that clears the write staging as well
ResetClearingWrites ==
    /\ pc = "boot"
    /\ sources' = <<>>
    /\ hashes' = Empty
    /\ paths' = Empty
    /\ wpaths' = Empty
    /\ staged' = Empty
    /\ pc' = "main"
    /\ ret' = NoRet
    /\ reads' = NoReads
    /\ truncs' = NoTruncs
    /\ intent' = Empty
    /\ touched' = {}
    /\ deps' = {}
    /\ flushed' = {}
    /\ trail' = <<>>
    /\ pages' = 0
    /\ written' = {}
    /\ ev' = NoEv
    /\ nev' = 0
    /\ nrel' = 0
    /\ today' = [ok |-> FALSE, v |-> "none"]
    /\ ndates' = 0
    /\ evicted' = FALSE
    /\ fresh' = NewWorld
    /\ UNCHANGED <<disk, main, watch, ncalls, nenv, again>>
    /\ UNCHANGED <<clock, channel, arena, opening, searcher, output, catalog, recompile>>

\* SystemWorld::reset, at the start of compile_once
Reset ==
    /\ pc = "boot"
    /\ sources' = <<>>
    /\ hashes' = Empty
    /\ paths' = Empty
    /\ pc' = "main"
    /\ ret' = NoRet
    /\ reads' = NoReads
    /\ truncs' = NoTruncs
    /\ intent' = Empty
    /\ touched' = {}
    /\ deps' = {}
    /\ flushed' = {}
    /\ trail' = <<>>
    /\ pages' = 0
    /\ written' = {}
    /\ ev' = NoEv
    /\ nev' = 0
    /\ nrel' = 0
    /\ today' = [ok |-> FALSE, v |-> "none"]
    /\ ndates' = 0
    /\ evicted' = FALSE
    /\ fresh' = NewWorld
    /\ UNCHANGED <<disk, wpaths, main, watch, ncalls, nenv, staged, again>>
    /\ UNCHANGED <<clock, channel, arena, opening, searcher, output, catalog, recompile>>

\* world.main = world.resolve(&command.input)?
ResolveMain ==
    /\ pc = "main"
    /\ ResolveEffect(InputPath)
    /\ fresh' = ResolveIn(fresh, InputPath)
    /\ LET res == ResolveResult(InputPath) IN
       IF res.ok THEN main' = res.v /\ pc' = "eval"
       ELSE main' = main /\ pc' = "exit"
    /\ UNCHANGED <<disk, wpaths, watch, ncalls, nenv, truncs, staged, flushed,
                   trail, again>>
    /\ UNCHANGED <<calendar, channel, evicted, arena, opening, searcher, output, document, catalog, loop>>

\* compile_once flushing the staged writes although compilation failed
CompileErrFlushing ==
    /\ pc = "eval"
    /\ pc' = "flush"
    /\ trail' = Append(trail, "errors")
    /\ UNCHANGED <<disk, world, watch, ncalls, nenv, ret, reads, truncs, intent,
                   touched, deps, staged, flushed, again>>
    /\ UNCHANGED <<calendar, channel, evicted, fresh, arena, opening, searcher, output, document, catalog, loop>>

\* typst::compile returns Err(errors): diagnostics are printed, Ok(false)
CompileErr ==
    /\ pc = "eval"
    /\ pc' = AfterPass
    /\ trail' = Append(trail, "errors")
    /\ evicted' = InLoop
    /\ UNCHANGED <<disk, world, watch, ncalls, nenv, ret, reads, truncs, intent,
                   touched, deps, staged, flushed, again>>
    /\ UNCHANGED <<calendar, channel, fresh, arena, opening, searcher, output, document, catalog, loop>>

\* typst::compile returns Ok(document), a document of n pages
CompileOk(n) ==
    /\ pc = "eval"
    /\ pc' = "export"
    /\ pages' = n
    /\ trail' = Append(trail, "compiled")
    /\ UNCHANGED <<disk, world, watch, ncalls, nenv, ret, reads, truncs, intent,
                   touched, deps, staged, flushed, again>>
    /\ UNCHANGED <<calendar, channel, evicted, fresh, arena, opening, searcher, output, written, catalog, loop>>

\* Path::extension() of command.output is "png", whatever the case
IsPng(out) == out[Len(out)] \in {".png", ".PNG"}

\* string.contains("{n}")
numbered(out) == \E i \in DOMAIN out : out[i] = "{n}"

\* usize::checked_ilog10(), None being taken as 0
RECURSIVE ilog10(_)
ilog10(n) == IF n < 10 THEN 0 ELSE 1 + ilog10(n \div 10)

\* the number width export picks for a document of n pages accepting any
\* width that holds the first page number
widthOfFirst(n) == 1

\* the number width export picks for a document of n pages
width(n) == 1 + ilog10(n)

DigitChars == <<"0", "1", "2", "3", "4", "5", "6", "7", "8", "9">>

\* the decimal digits of a number
RECURSIVE Decimal(_)
Decimal(i) ==
    IF i < 10 THEN <<DigitChars[i + 1]>>
    ELSE Decimal(i \div 10) \o <<DigitChars[(i % 10) + 1]>>

RECURSIVE PadZero(_, _)
PadZero(digits, w) ==
    IF Len(digits) >= w THEN digits ELSE PadZero(<<"0">> \o digits, w)

\* format!("{:0width$}", i): zero-padded, never cut
format(i, w) == PadZero(Decimal(i), w)

\* string.replace("{n}", number): every occurrence is replaced
RECURSIVE replace(_, _)
replace(string, number) ==
    IF string = <<>> THEN <<>>
    ELSE (IF Head(string) = "{n}" THEN number ELSE <<Head(string)>>)
         \o replace(Tail(string), number)

\* the path page i of n (counted from 1) is saved to
PagePath(out, i, n) ==
    IF numbered(out) THEN replace(out, format(i, width(n))) ELSE out

\* export() of a PNG output without the check of the page count
PngRefusedNever(out, n) == FALSE

\* export() bails out before rendering: several pages, no `{n}`
PngRefused(out, n) == ~numbered(out) /\ n > 1

\* the pages export gets to save when the write numbered `fail` fails
\* (0: none fails)
SavedPages(n, fail) == IF fail = 0 \/ fail > n THEN 1..n ELSE 1..(fail - 1)

\* the paths export() writes and whether it returns Ok
ExportResult(out, n, fail) ==
    IF IsPng(out)
      THEN IF PngRefused(out, n)
             THEN [files |-> {}, ok |-> FALSE]
             ELSE [files |-> {PagePath(out, i, n) : i \in SavedPages(n, fail)},
                   ok |-> fail = 0 \/ fail > n]
      ELSE [files |-> IF fail = 0 THEN {out} ELSE {}, ok |-> fail = 0]

\* export(&document, command)?
Export(fail) ==
    /\ pc = "export"
    /\ LET res == ExportResult(output, pages, fail) IN
       /\ written' = res.files
       /\ exists' = IF output \in res.files
                       THEN [exists EXCEPT ![FileOut] = TRUE] ELSE exists
       /\ content' = IF output \in res.files
                        THEN [content EXCEPT ![FileOut] = Rendered] ELSE content
       /\ pc' = IF res.ok THEN "flush" ELSE "exit"
       /\ trail' = Append(trail, IF res.ok THEN "exported" ELSE "export failed")
    /\ UNCHANGED <<world, watch, ncalls, nenv, ret, reads, truncs, intent, touched, deps,
                   staged, flushed, again>>
    /\ UNCHANGED <<calendar, channel, evicted, fresh, arena, opening, searcher, output, pages, catalog, loop>>

(***************************************************************************)
(* The flush of the staged writes.                                         *)
(***************************************************************************)
\* WriteBuffer::is_empty
is_empty(buffer) == DOMAIN buffer = {}

Least(S) == CHOOSE x \in S : \A y \in S : x <= y
Greatest(S) == CHOOSE x \in S : \A y \in S : x >= y
Without(f, k) == [x \in DOMAIN f \ {k} |-> f[x]]

\* WriteBuffer::dump with the values taken from the greatest key down
RECURSIVE dumpDescending(_)
dumpDescending(buffer) ==
    IF DOMAIN buffer = {} THEN <<>>
    ELSE LET k == Greatest(DOMAIN buffer) IN
      buffer[k] \o dumpDescending(Without(buffer, k))

\* WriteBuffer::dump: the values of the BTreeMap, in key order, flattened
RECURSIVE dump(_)
dump(buffer) ==
    IF DOMAIN buffer = {} THEN <<>>
    ELSE LET k == Least(DOMAIN buffer) IN
      buffer[k] \o dump(Without(buffer, k))

\* `loc` of write() matching any path that resolved, whatever its identity
LocsAnyOk(h) == {p \in DOMAIN hashes : hashes[p].ok}

\* the paths of hashes that hold Ok(h): the candidates of `loc` in write()
Locs(h) == {p \in DOMAIN hashes : hashes[p].ok /\ hashes[p].v = h}

Perms(S) ==
    {s \in [1..Cardinality(S) -> S] : \A x \in S : \E i \in DOMAIN s : s[i] = x}

\* the loop of write(): the entries of the storage in iteration order
\* `order`, each written to the path `pick` finds for it; the first failing
\* fs::write ends the loop.  st = [ex, ct, wr, ok]
RECURSIVE FlushFrom(_, _, _, _)
FlushFrom(order, pick, i, st) ==
    IF i > Len(order) THEN st
    ELSE LET h == order[i] IN
      IF Locs(h) = {} \/ is_empty(wpaths[h])
        THEN FlushFrom(order, pick, i + 1, st)
        ELSE LET f == FileOf(pick[h]) IN
          IF f = RootDir THEN [st EXCEPT !.ok = FALSE]
          ELSE FlushFrom(order, pick, i + 1,
                 [ex |-> [st.ex EXCEPT ![f] = TRUE],
                  ct |-> [st.ct EXCEPT ![f] = dump(wpaths[h])],
                  wr |-> st.wr \cup
                           {[h |-> h, file |-> f, bytes |-> dump(wpaths[h])]},
                  ok |-> TRUE])

\* the choices hashes.iter().find(..) can make, one per stored identity
Picks ==
    {pick \in [DOMAIN wpaths -> Paths] :
        \A h \in DOMAIN wpaths : Locs(h) # {} => pick[h] \in Locs(h)}

\* the most calls of open_file that are recorded
MaxOpens == 2

\* open_file after every pass that succeeded, if the run asked for it
TakesWhenAsked(ok) == ok /\ asked

\* `if ok { if let Some(open) = command.open.take() {`
Takes(ok) == ok /\ open

\* write(world)?, then Ok(true); back in compile(), open_file if requested
Flush ==
    /\ pc = "flush"
    /\ \E order \in Perms(DOMAIN wpaths), pick \in Picks :
         LET st == FlushFrom(order, pick, 1,
                             [ex |-> exists, ct |-> content, wr |-> {}, ok |-> TRUE])
         IN /\ exists' = st.ex
            /\ content' = st.ct
            /\ flushed' = st.wr
            /\ pc' = IF st.ok THEN AfterPass ELSE "exit"
            /\ trail' = Append(trail, IF st.ok THEN "flush" ELSE "flush failed")
            /\ evicted' = (st.ok /\ InLoop)
            /\ open' = (open /\ ~Takes(st.ok))
            /\ opens' = IF Takes(st.ok) /\ Len(opens) < MaxOpens
                           THEN Append(opens, again) ELSE opens
    /\ UNCHANGED <<world, watch, ncalls, nenv, ret, reads, truncs, intent, touched, deps,
                   staged, again, asked>>
    /\ UNCHANGED <<calendar, channel, fresh, arena, searcher, output, document, catalog, loop>>

(***************************************************************************)
(* The loop of compile() over the events of the file watcher.              *)
(***************************************************************************)
\* notify::EventKind, with notify::event::ModifyKind
EventKinds ==
    {"any", "access", "create", "modify-any", "modify-data", "modify-metadata",
     "modify-name", "modify-other", "remove", "other"}
\* event.paths
EventPathSets == {{}, {OutPath}, {"/r/a"}, {"b"}, {OutPath, "b"}}
Events == [kind : EventKinds, paths : EventPathSets]
\* an Err(_) item of the channel
WatchError == [kind |-> "error", paths |-> {}]
\* the creation of the input file
InputCreated == [kind |-> "create", paths |-> {"/r/a"}]

\* same_file::is_same_file
is_same_file(f, g) ==
    IF exists[f] /\ exists[g] THEN Ok(f = g) ELSE Err("NotFound")

\* the loop without the test for the output's own events
discardNever(event) == FALSE

\* event.paths.iter().all(|path| is_same_file(path, &command.output)
\* .unwrap_or(false))
discard(event) ==
    \A path \in event.paths :
        LET same == is_same_file(FileOf(path), FileOut) IN same.ok /\ same.v

\* SystemWorld::dependant
dependant(path) ==
    \/ normalize(path) \in DOMAIN hashes
    \/ LET hash == PathHashNew(path, "R") IN
         hash.ok /\ hash.v \in DOMAIN paths

\* SystemWorld::relevant going by the paths for every kind of event
relevantByPaths(event) == \E path \in event.paths : dependant(path)

\* SystemWorld::relevant
relevant(event) ==
    CASE event.kind = "access" -> FALSE
      [] event.kind = "create" -> TRUE
      [] event.kind = "modify-metadata" -> FALSE
      [] event.kind = "modify-name" -> TRUE
      [] event.kind = "modify-other" -> FALSE
      [] event.kind = "other" -> FALSE
      [] OTHER -> \E path \in event.paths : dependant(path)

\* `recompile = world.relevant(&event)`: the last event decides
DirtyLast(flag, event) == ~discard(event) /\ relevant(event)

\* the body of the for loop: `continue` for the output's own events,
\* `recompile |= world.relevant(&event)` for the others
Dirty(flag, event) == flag \/ (~discard(event) /\ relevant(event))

\* the body of the loop for one item of the channel
Handle(event) ==
    /\ pc \in {"watch", "drain"}
    /\ IF event.kind = "error"
         THEN /\ pc' = "exit"
              /\ ev' = [NoEv EXCEPT !.kind = "error"]
              /\ UNCHANGED <<recompile, nrel>>
         ELSE /\ pc' = "drain"
              /\ recompile' = Dirty(recompile, event)
              /\ ev' = [kind |-> event.kind, paths |-> event.paths,
                        same |-> discard(event), rel |-> relevant(event)]
              /\ nrel' = IF ~discard(event) /\ relevant(event) /\ nrel < MaxBatch
                            THEN nrel + 1 ELSE nrel
    /\ UNCHANGED <<disk, world, watch, ncalls, nenv, history>>
    /\ UNCHANGED <<calendar, evicted, fresh, arena, opening, searcher, output, document, catalog>>

\* one item sent by the watcher and taken at once by rx.recv() or
\* rx.recv_timeout(timeout)
WatchEvent(event) ==
    /\ nev < MaxBatch
    /\ nev' = nev + 1
    /\ Handle(event)
    /\ UNCHANGED channel

\* the end of a batch: the iterator is exhausted, `if recompile`
BatchEnd ==
    /\ pc = "drain"
    /\ recompile' = FALSE
    /\ again' = (again \/ recompile)
    /\ ev' = NoEv
    /\ IF recompile
         THEN pc' = "boot" /\ UNCHANGED <<nev, nrel>>
         ELSE pc' = "watch" /\ nev' = 0 /\ nrel' = 0
    /\ UNCHANGED <<disk, world, watch, ncalls, nenv, ret, reads, truncs, intent,
                   touched, deps, staged, flushed, trail>>
    /\ UNCHANGED <<calendar, evicted, fresh, arena, opening, searcher, output, document, catalog>>

\* rx.recv_timeout(timeout) runs out: the batch is complete
WatchTimeout ==
    /\ queue = <<>>
    /\ BatchEnd
    /\ UNCHANGED channel

(***************************************************************************)
(* The channel between the watcher and the loop, and the time the loop     *)
(* waits on it.                                                            *)
(***************************************************************************)
\* items the channel holds at most
MaxQueue == 2
\* `timeout`, in ticks of the clock
Timeout == 2
\* an access to the input file
InputAccessed == [kind |-> "access", paths |-> {"/r/a"}]
\* the events the watcher sends
ChannelEvents == {InputCreated, InputAccessed}

\* the watcher thread sends an event: tx.send(event)
Deliver(event) ==
    /\ Watching
    /\ Len(queue) < MaxQueue
    /\ queue' = Append(queue, event)
    /\ UNCHANGED <<disk, world, watch, pc, ncalls, nenv, history>>
    /\ UNCHANGED <<calendar, wait, evicted, fresh, arena, opening, searcher, output, document, catalog, loop>>

\* rx.recv() or rx.recv_timeout(timeout) returns the oldest item; the next
\* rx.recv_timeout(timeout) starts to wait
Receive ==
    /\ queue # <<>>
    /\ Handle(Head(queue))
    /\ queue' = Tail(queue)
    /\ wait' = 0
    /\ nev' = IF nev < MaxBatch THEN nev + 1 ELSE nev

\* time passes while rx.recv_timeout(timeout) waits
Tick ==
    /\ pc = "drain"
    /\ wait < Timeout
    /\ wait' = wait + 1
    /\ UNCHANGED <<disk, world, watch, pc, ncalls, nenv, history>>
    /\ UNCHANGED <<calendar, queue, evicted, fresh, arena, opening, searcher, output, document, catalog, loop>>

\* rx.recv_timeout(timeout) has waited for `timeout` and no item came
Elapse ==
    /\ queue = <<>>
    /\ wait = Timeout
    /\ BatchEnd
    /\ wait' = 0
    /\ queue' = queue

(***************************************************************************)
(* Other processes changing the files.                                     *)
(***************************************************************************)
EnvWrite(f, c) ==
    /\ pc # "exit"
    /\ nenv < MaxEnv
    /\ nenv' = nenv + 1
    /\ ~(exists[f] /\ content[f] = c)
    /\ exists' = [exists EXCEPT ![f] = TRUE]
    /\ content' = [content EXCEPT ![f] = c]
    /\ UNCHANGED <<world, watch, pc, ncalls, history>>
    /\ UNCHANGED <<calendar, channel, evicted, fresh, arena, opening, searcher, output, document, catalog, loop>>

EnvRemove(f) ==
    /\ pc # "exit"
    /\ nenv < MaxEnv
    /\ nenv' = nenv + 1
    /\ exists[f]
    /\ exists' = [exists EXCEPT ![f] = FALSE]
    /\ content' = [content EXCEPT ![f] = <<>>]
    /\ UNCHANGED <<world, watch, pc, ncalls, history>>
    /\ UNCHANGED <<calendar, channel, evicted, fresh, arena, opening, searcher, output, document, catalog, loop>>

\* time passes
ClockAdvance(h) ==
    /\ pc # "exit"
    /\ h > clock
    /\ clock' = h
    /\ UNCHANGED <<disk, world, watch, pc, ncalls, nenv, history>>
    /\ UNCHANGED <<today, ndates, channel, evicted, fresh, arena, opening, searcher, output, document, catalog, loop>>

Next ==
    \/ Reset
    \/ ResolveMain
    \/ \E p \in CallPaths : Resolve(p)
    \/ \E p \in CallPaths : Read(p)
    \/ \E p \in CallPaths, w \in WriteArgs : Write(p, w[1], w[2])
    \/ CompileErr
    \/ CompileOk(1)
    \/ \E fail \in 0..1 : Export(fail)
    \/ Flush
    \/ \E f \in RegularFiles, c \in EnvContents : EnvWrite(f, c)
    \/ \E f \in RegularFiles : EnvRemove(f)
    \/ WatchEvent(InputCreated)
    \/ WatchTimeout

Spec == Init /\ [][Next]_vars

(***************************************************************************)
(* The watch mode: passes that touch one more file, and every kind of      *)
(* event on the channel.                                                   *)
(***************************************************************************)
\* the paths the compiler passes to resolve() in these runs
WatchCallPaths == {"lb"}
\* the fragment it stages
WatchWrite == <<1, <<97>>>>

InitWatch ==
    /\ InitDisk
    /\ InitWorld
    /\ InitHistory
    /\ watch = TRUE
    /\ output = PdfOutput
    /\ fonts = <<>>
    /\ inits = <<>>
    /\ fresh = NewWorld
    /\ open = FALSE
    /\ asked = open
    /\ Searched

NextWatch ==
    \/ Reset
    \/ ResolveMain
    \/ \E p \in WatchCallPaths : Resolve(p)
    \/ Write("b", WatchWrite[1], WatchWrite[2])
    \/ CompileErr
    \/ CompileOk(1)
    \/ \E fail \in 0..1 : Export(fail)
    \/ Flush
    \/ \E f \in RegularFiles : EnvRemove(f)
    \/ \E event \in Events \cup {WatchError} : WatchEvent(event)
    \/ WatchTimeout

WatchSpec == InitWatch /\ [][NextWatch]_vars

(***************************************************************************)
(* Single passes over every kind of output and size of document.           *)
(***************************************************************************)
InitExport ==
    /\ InitDisk
    /\ InitWorld
    /\ InitHistory
    /\ watch = FALSE
    /\ output \in Outputs
    /\ fonts = <<>>
    /\ inits = <<>>
    /\ fresh = NewWorld
    /\ open = FALSE
    /\ asked = open
    /\ Searched

NextExport ==
    \/ Reset
    \/ ResolveMain
    \/ Write("b", WatchWrite[1], WatchWrite[2])
    \/ CompileErr
    \/ \E n \in PageCounts : CompileOk(n)
    \/ \E fail \in 0..(IF pages = 0 THEN 1 ELSE pages) : Export(fail)
    \/ Flush

ExportSpec == InitExport /\ [][NextExport]_vars

(***************************************************************************)
(* Passes that ask for fonts, with a font file among the files.            *)
(***************************************************************************)
InitFont ==
    /\ exists = [f \in Files |-> f # FileOut]
    /\ content = [f \in Files |->
                    IF f = FileA THEN H ELSE IF f = FileB THEN FontBytes ELSE <<>>]
    /\ InitWorld
    /\ InitHistory
    /\ watch = TRUE
    /\ output = PdfOutput
    /\ fonts = <<EmbeddedSlot, FileSlot>>
    /\ inits = <<0, 0>>
    /\ fresh = NewWorld
    /\ open = FALSE
    /\ asked = open
    /\ Searched

NextFont ==
    \/ Reset
    \/ ResolveMain
    \/ \E id \in 0..1 : Font(id)
    \/ Read("b")
    \/ CompileErr
    \/ CompileOk(1)
    \/ \E fail \in 0..1 : Export(fail)
    \/ Flush
    \/ EnvWrite(FileB, Bad)
    \/ EnvRemove(FileB)
    \/ WatchEvent(InputCreated)
    \/ WatchTimeout

FontSpec == InitFont /\ [][NextFont]_vars

(***************************************************************************)
(* The loop fed through the channel while passes run and time passes.      *)
(***************************************************************************)
\* the steps of compile_once, of a pass that makes no world call
PassStep ==
    \/ Reset
    \/ ResolveMain
    \/ CompileErr
    \/ CompileOk(1)
    \/ \E fail \in 0..1 : Export(fail)
    \/ Flush

NextChannel ==
    \/ PassStep
    \/ \E event \in ChannelEvents : Deliver(event)
    \/ Receive
    \/ Tick
    \/ Elapse

ChannelSpec == InitWatch /\ [][NextChannel]_vars

\* the thread of compile() keeps running and time keeps passing; the
\* watcher sends events as it pleases
ChannelLive ==
    /\ InitWatch
    /\ [][NextChannel]_vars
    /\ WF_vars(PassStep)
    /\ WF_vars(Receive)
    /\ WF_vars(Tick)
    /\ WF_vars(Elapse)

(***************************************************************************)
(* Passes that ask for fonts and stage writes.                             *)
(***************************************************************************)
NextKeep ==
    \/ PassStep
    \/ \E id \in 0..1 : Font(id)
    \/ \E w \in WriteArgs : Write("b", w[1], w[2])
    \/ WatchEvent(InputCreated)
    \/ WatchTimeout

KeepSpec == InitFont /\ [][NextKeep]_vars

(***************************************************************************)
(* Runs with and without --open and --watch: passes that fail before or    *)
(* after compiling, and passes that succeed.                               *)
(***************************************************************************)
InitOpen ==
    /\ InitDisk
    /\ InitWorld
    /\ InitHistory
    /\ watch \in BOOLEAN
    /\ output = PdfOutput
    /\ fonts = <<>>
    /\ inits = <<>>
    /\ fresh = NewWorld
    /\ open \in BOOLEAN
    /\ asked = open
    /\ Searched

NextOpen ==
    \/ PassStep
    \/ EnvRemove(FileA)
    \/ EnvWrite(FileA, BomHi)
    \/ WatchEvent(InputCreated)
    \/ WatchTimeout

OpenSpec == InitOpen /\ [][NextOpen]_vars

(***************************************************************************)
(* FontSearcher::search over a system font directory, the embedded fonts   *)
(* and a directory given with --font-path.  A directory is the sequence of *)
(* its files in file name order (WalkDir sorted by file_name); a file has  *)
(* an extension and a number of faces, 0 when it cannot be opened or       *)
(* mapped or holds no face.                                                *)
(***************************************************************************)
SystemDir == "/usr/share/fonts"
UserDir == "/r/fonts"
Extensions == {"ttf", "TTF", "Ttf", "otf", "oTF", "ttc", "OTC", "txt"}
FaceCounts == {0, 1, 2}
DirEntries == [ext : Extensions, faces : FaceCounts]
\* the files of the system directory and of the user directory
SystemListings == {<<>>, <<[ext |-> "otf", faces |-> 1]>>}
UserListings == {<<e>> : e \in DirEntries} \cup {<<d, e>> : d, e \in DirEntries}
\* the fonts embedded in the binary, each holding one face
EmbeddedCount == 14

\* the path of the i-th file of a directory
EntryPath(dir, i, entry) == dir \o "/f" \o ToString(i) \o "." \o entry.ext

\* the extensions search_dir passes on to search_file
Recognized(ext) ==
    ext \in {"ttf", "otf", "TTF", "OTF", "ttc", "otc", "TTC", "OTC"}

\* the slots and infos search_file pushes for the faces from `index` on
RECURSIVE search_faces(_, _, _, _)
search_faces(path, faces, index, st) ==
    IF index >= faces THEN st
    ELSE search_faces(path, faces, index + 1,
           [book |-> Append(st.book, FontInfoOf(path, index)),
            fonts |-> Append(st.fonts,
                             [path |-> path, index |-> index, font |-> Unset])])

\* FontSearcher::search_file
search_file(path, entry, st) == search_faces(path, entry.faces, 0, st)

\* FontSearcher::search_dir, from the i-th file of the directory on
RECURSIVE search_dir(_, _, _, _)
search_dir(dir, listing, i, st) ==
    IF i > Len(listing) THEN st
    ELSE search_dir(dir, listing, i + 1,
           IF Recognized(listing[i].ext)
             THEN search_file(EntryPath(dir, i, listing[i]), listing[i], st)
             ELSE st)

\* FontSearcher::search_embedded: every face comes parsed
RECURSIVE search_embedded(_, _)
search_embedded(n, st) ==
    IF n = 0 THEN st
    ELSE search_embedded(n - 1,
           [book |-> Append(st.book, FontInfoOf(EmbeddedSlot.path, EmbeddedSlot.index)),
            fonts |-> Append(st.fonts, EmbeddedSlot)])

\* a step of search(): the searcher takes over book and slots `st`
Searches(from, to, st) ==
    /\ stage = from
    /\ stage' = to
    /\ book' = st.book
    /\ fonts' = st.fonts
    /\ inits' = [i \in DOMAIN st.fonts |-> 0]
    /\ fresh' = [fresh EXCEPT !.fonts = st.fonts]
    /\ UNCHANGED <<disk, world, watch, pc, ncalls, nenv, history, calendar, channel,
                   evicted, arena, opening, dirs, output, document, loop>>

\* self.search_system()
SearchSystem ==
    Searches("new", "system",
             search_dir(SystemDir, dirs.system, 1, [book |-> book, fonts |-> fonts]))

\* self.search_embedded()
SearchEmbedded ==
    Searches("system", "embedded",
             search_embedded(EmbeddedCount, [book |-> book, fonts |-> fonts]))

\* for path in font_paths { self.search_dir(path) }
SearchUser ==
    Searches("embedded", "done",
             search_dir(UserDir, dirs.user, 1, [book |-> book, fonts |-> fonts]))

\* FontSearcher::new, before a run that finds files in the directories
InitSearch ==
    /\ InitDisk
    /\ InitWorld
    /\ InitHistory
    /\ watch = FALSE
    /\ output = PdfOutput
    /\ fonts = <<>>
    /\ inits = <<>>
    /\ fresh = NewWorld
    /\ open = FALSE
    /\ asked = open
    /\ dirs \in [system : SystemListings, user : UserListings]
    /\ book = <<>>
    /\ stage = "new"

NextSearch ==
    \/ SearchSystem
    \/ SearchEmbedded
    \/ SearchUser

SearchSpec == InitSearch /\ [][NextSearch]_vars

(***************************************************************************)
(* The arena of a pass over a large project.  Only the number of sources   *)
(* is kept, and for the files followed the SourceId their slot holds       *)
(* together with the index at which insert() pushed their source.          *)
(***************************************************************************)
\* the largest number of sources a pass pushes
MaxSources == 65538
\* the files followed, and how many other files a pass resolves in a row
ArenaFiles == {FileA, FileB}
IncludeCounts == {1, U16 - 2, U16 - 1, U16}
\* the arena lengths up to which single other files are resolved
FewSources == 3

\* the model but for the arena
program ==
    <<disk, world, watch, pc, ncalls, nenv, history, calendar, channel, evicted,
      fresh, opening, searcher, output, document, catalog, loop>>

\* resolve() of a file not resolved in this pass, which decodes: insert()
\* pushes its source and the slot of the file keeps the id
InsertFile(h) ==
    /\ h \notin DOMAIN issued
    /\ nsources < MaxSources
    /\ issued' = Put(issued, h, [at |-> nsources, id |-> as_u16(nsources)])
    /\ nsources' = nsources + 1
    /\ UNCHANGED program

\* resolve() of n other files, none resolved in this pass, all decoding
InsertOthers(n) ==
    /\ nsources + n <= MaxSources
    /\ n = 1 => nsources < FewSources
    /\ nsources' = nsources + n
    /\ UNCHANGED <<issued, program>>

\* SystemWorld::reset, as far as the arena and the slots go
ClearArena ==
    /\ nsources > 0
    /\ nsources' = 0
    /\ issued' = Empty
    /\ UNCHANGED program

NextArena ==
    \/ \E h \in ArenaFiles : InsertFile(h)
    \/ \E n \in IncludeCounts : InsertOthers(n)
    \/ ClearArena

ArenaSpec == InitWatch /\ [][NextArena]_vars

(***************************************************************************)
(* Passes compared with the same calls on a world constructed anew: the    *)
(* first pass loads fonts, later passes read, resolve and ask for the date *)
(* while the font file changes.                                            *)
(***************************************************************************)
NextTwin ==
    \/ PassStep
    \/ FontUncounted(1)
    \/ \E id \in 0..1 : Font(id)
    \/ Read("b")
    \/ Resolve("b")
    \/ Today([some |-> FALSE, hours |-> 0])
    \/ ClockAdvance(24)
    \/ EnvWrite(FileB, Bad)
    \/ EnvRemove(FileB)
    \/ WatchEvent(InputCreated)
    \/ WatchTimeout

TwinSpec == InitFont /\ [][NextTwin]_vars

(***************************************************************************)
(* The paths a pass leaves behind for the loop: a file that may be         *)
(* missing, asked for by several spellings, and events naming it.          *)
(***************************************************************************)
DepCallPaths == {"b", "lb"}
DepEvents == [kind : {"modify-data", "remove"}, paths : {{"b"}, {"lb"}, {"/r/b"}}]

NextDep ==
    \/ Reset
    \/ ResolveMain
    \/ \E p \in DepCallPaths : Resolve(p)
    \/ \E p \in DepCallPaths : Read(p)
    \/ Write("b", WatchWrite[1], WatchWrite[2])
    \/ CompileErr
    \/ CompileOk(1)
    \/ \E fail \in 0..1 : Export(fail)
    \/ Flush
    \/ EnvWrite(FileB, BomHi)
    \/ EnvRemove(FileB)
    \/ \E event \in DepEvents : WatchEvent(event)
    \/ WatchTimeout

DepSpec == InitWatch /\ [][NextDep]_vars

(***************************************************************************)
(* Passes that ask for the date while time passes.                         *)
(***************************************************************************)
NextToday ==
    \/ Reset
    \/ ResolveMain
    \/ \E offset \in Offsets : Today(offset)
    \/ \E h \in ClockValues : ClockAdvance(h)
    \/ CompileErr
    \/ CompileOk(1)
    \/ \E fail \in 0..1 : Export(fail)
    \/ Flush
    \/ WatchEvent(InputCreated)
    \/ WatchTimeout

TodaySpec == InitWatch /\ [][NextToday]_vars

(***************************************************************************)
(* Properties.                                                             *)
(***************************************************************************)
Initialized(cell) == cell.ok \/ cell.v # "unset"
SameResult(a, b) == a.ok = b.ok /\ a.v = b.v
ResetStep == pc = "boot" /\ pc' = "main"
CallStep == ncalls' = ncalls + 1
\* the paths that read-intent resolution stored with an identity
ReadResolved == {p \in DOMAIN hashes : hashes[p].ok /\ intent[p] = "R"}

\* C1: within a pass, two path spellings of one file that read-intent
\* resolution resolved carry the same PathIdentity, and the SourceId that
\* resolve() returns for one spelling is the one held by the slot every
\* spelling of that file leads to.
AliasesShareIdentity ==
    /\ \A p, q \in ReadResolved :
         FileOf(p) = FileOf(q) => hashes[p].v = hashes[q].v
    /\ (ret.op = "resolve" /\ ret.res.ok) =>
         \A q \in ReadResolved :
            FileOf(q) = FileOf(ret.path) =>
              /\ hashes[q].v \in DOMAIN paths
              /\ SameResult(paths[hashes[q].v].source, ret.res)

\* C1 witness: resolve() succeeded through "./a" while "a" is resolved too
AliasResolved ==
    /\ ret.op = "resolve" /\ ret.path = "./a" /\ ret.res.ok
    /\ {"a", "./a"} \subseteq ReadResolved

\* C2: between two resets read() runs at most once per file for the source
\* cache and at most once for the buffer cache, whatever calls are made.
ReadAtMostOncePerKind == \A x \in Files \X Kinds : reads[x] <= 1

\* C2 witness: a file was requested again after both of its caches were
\* filled, one read each
BothKindsReadOnce ==
    /\ ret.op \in {"resolve", "read"} /\ ~ret.first /\ ret.res.ok
    /\ reads[<<FileOf(ret.path), "source">>] = 1
    /\ reads[<<FileOf(ret.path), "buffer">>] = 1

\* C3: short of a reset, an initialized source or buffer cell keeps its
\* value or failure, the stored sources keep their id and text, and a
\* resolve/read call that finds the cell initialized returns its content.
SlotsStayAsInitialized ==
    [][~ResetStep =>
        /\ \A h \in DOMAIN paths :
             /\ h \in DOMAIN paths'
             /\ Initialized(paths[h].source) =>
                  SameResult(paths'[h].source, paths[h].source)
             /\ Initialized(paths[h].buffer) =>
                  SameResult(paths'[h].buffer, paths[h].buffer)
        /\ \A i \in 1..Len(sources) :
             Len(sources') >= i /\ sources'[i] = sources[i]
        /\ (CallStep /\ ret'.op \in {"resolve", "read"} /\ hashes'[ret'.path].ok) =>
             LET h == hashes'[ret'.path].v
                 cell == IF ret'.op = "resolve" THEN SlotOf(h).source
                         ELSE SlotOf(h).buffer
             IN Initialized(cell) => SameResult(ret'.res, cell)
    ]_vars

\* C3 witness: read() returned cached bytes that were no longer what the
\* disk held when it was called
StaleBytesReturned ==
    /\ ret.op = "read" /\ ~ret.first /\ ret.res.ok
    /\ ~(ret.disk.ok /\ ret.disk.v = ret.res.v)

\* what a resolve that reads the disk returns for the bytes (or failure) `d`
FreshResolve(d, res) ==
    IF ~d.ok THEN SameResult(res, d)
    ELSE IF ~Decode(d.v).ok THEN SameResult(res, Decode(d.v))
    ELSE /\ res.ok
         /\ res.v < Len(sources)
         /\ source(res.v).text = Decode(d.v).v

\* C4: right after reset no identity, slot or source is left, and the
\* first call of a pass for a file returns what the disk holds at that
\* moment, never something an earlier pass cached.
FreshAfterReset ==
    /\ pc = "main" => hashes = Empty /\ paths = Empty /\ sources = <<>>
    /\ (ret.op = "read" /\ ret.first) => SameResult(ret.res, ret.disk)
    /\ (ret.op = "resolve" /\ ret.first) => FreshResolve(ret.disk, ret.res)

\* C4 witness: in a later pass the input resolves to the text another
\* process gave the file
ChangeSeenInLaterPass ==
    /\ again /\ ret.op = "resolve" /\ ret.first /\ ret.res.ok
    /\ ret.res.v < Len(sources)
    /\ source(ret.res.v).text = Hi

\* the keys at which write() was given a payload for identity h
StagedKeys(h) == {x[2] : x \in {y \in DOMAIN staged : y[1] = h}}

\* the payloads last given to write() for h, by ascending key
RECURSIVE AscendingConcat(_, _)
AscendingConcat(h, keys) ==
    IF keys = {} THEN <<>>
    ELSE LET k == CHOOSE x \in keys : \A y \in keys : x <= y IN
      staged[<<h, k>>] \o AscendingConcat(h, keys \ {k})

\* C5: the bytes a flush writes for an identity are the payloads staged
\* last at each of its keys, concatenated by ascending key.
FlushWritesAscendingLastWins ==
    \A w \in flushed : w.bytes = AscendingConcat(w.h, StagedKeys(w.h))

\* C5 witness: {5:"b", 1:"a"} was flushed as "ab"
FlushedAb ==
    \E w \in flushed :
        /\ StagedKeys(w.h) = {1, 5}
        /\ staged[<<w.h, 5>>] = <<98>> /\ staged[<<w.h, 1>>] = <<97>>
        /\ w.bytes = <<97, 98>>

\* the identities write() can stage under
StagingIds == {hash128(f) : f \in RegularFiles}
\* what a flush would write for every identity of a storage
DumpAll(storage) == [h \in DOMAIN storage |-> dump(storage[h])]
\* two further write() calls issued in either order leave the same output
Commute(h1, w1, h2, w2) ==
    DumpAll(WriteStorage_write(
              WriteStorage_write(wpaths, h1, w1[1], w1[2]), h2, w2[1], w2[2]))
    = DumpAll(WriteStorage_write(
              WriteStorage_write(wpaths, h2, w2[1], w2[2]), h1, w1[1], w1[2]))

\* C6 as stated: whenever the compiler can issue writes, the flushed
\* content does not depend on the order in which it issues any two of them.
IssueOrderNeverMatters ==
    pc = "eval" =>
      \A h1, h2 \in StagingIds : \A w1, w2 \in WriteArgs : Commute(h1, w1, h2, w2)

\* C6 amended: the flushed content does not depend on the order in which
\* writes are issued when no two of them give one order key of one
\* identity different payloads.
IssueOrderOfDistinctKeys ==
    pc = "eval" =>
      \A h1, h2 \in StagingIds : \A w1, w2 \in WriteArgs :
        (<<h1, w1[1]>> # <<h2, w2[1]>> \/ w1[2] = w2[2]) => Commute(h1, w1, h2, w2)

\* C6 witness: one identity holds the fragments of two writes at two keys
TwoKeysStaged ==
    /\ pc = "eval" /\ ret.op = "write" /\ ret.res.ok
    /\ \E h \in DOMAIN wpaths : DOMAIN wpaths[h] = {1, 5}

\* the staging buffers hold what write() was given and nothing else
BuffersAsStaged ==
    /\ DOMAIN wpaths = {x[1] : x \in DOMAIN staged}
    /\ \A h \in DOMAIN wpaths :
         /\ DOMAIN wpaths[h] = StagedKeys(h)
         /\ \A k \in StagedKeys(h) : wpaths[h][k] = staged[<<h, k>>]

\* C7: a flush runs only as the third step of a pass, after compilation
\* without errors and a successful export; a pass that ended otherwise
\* wrote no staged file, and the buffers always hold exactly what was staged.
FlushOnlyAfterSuccess ==
    /\ (flushed # {} \/ \E i \in DOMAIN trail : trail[i] \in {"flush", "flush failed"})
         => /\ Len(trail) = 3
            /\ trail[1] = "compiled"
            /\ trail[2] = "exported"
    /\ BuffersAsStaged

\* C7 witness: a pass ended with diagnostics while fragments were staged,
\* and nothing was written
FailedPassKeepsStaged ==
    /\ pc = "watch" /\ trail = <<"errors">>
    /\ wpaths # Empty /\ flushed = {}
    /\ ret.op = "write" /\ ret.res.ok

\* C8: a file written by a flush belongs to an identity that received a
\* fragment.
FlushWritesOnlyStaged ==
    \A w \in flushed : \E x \in DOMAIN staged : x[1] = hash128(w.file)

\* C8 witness: a flush wrote a file while another resolved file, never
\* staged, was left alone
UnstagedLeftAlone ==
    /\ flushed # {}
    /\ \E p \in DOMAIN hashes :
         /\ hashes[p].ok
         /\ StagedKeys(hashes[p].v) = {}
         /\ \A w \in flushed : w.file # FileOf(p)

\* C9 as stated: within a pass a file is created/truncated at most once,
\* through whatever spellings write() is given.
TruncatedAtMostOnce == \A f \in RegularFiles : truncs[f] <= 1

\* the paths of hashes stored with an identity by the given access mode
ResolvedBy(mode) == {p \in DOMAIN hashes : hashes[p].ok /\ intent[p] = mode}

\* C10 as stated: an identity obtained under read intent differs from
\* every identity obtained under write intent.
IdentitySpacesDisjoint ==
    \A p \in ResolvedBy("R"), q \in ResolvedBy("W") : hashes[p].v # hashes[q].v

\* C10 amended: the identity is the hash of the file's handle whatever the
\* intent: paths of one file resolved under read and under write intent
\* hold the same identity, paths of different files different ones.
IdentityIgnoresIntent ==
    \A p \in ResolvedBy("R"), q \in ResolvedBy("W") :
        (FileOf(p) = FileOf(q)) <=> (hashes[p].v = hashes[q].v)

\* C10 witness: one file is resolved under read intent by one spelling and
\* under write intent by another
BothIntentsResolved ==
    \E p \in ResolvedBy("R"), q \in ResolvedBy("W") : FileOf(p) = FileOf(q)

\* resolve() ran its closure as far as reading the file
ResolveReadStep ==
    /\ ret'.op = "resolve"
    /\ reads'[<<FileOf(ret'.path), "source">>]
         = reads[<<FileOf(ret'.path), "source">>] + 1

\* the bytes without a leading EF BB BF
WithoutBom(bytes) ==
    IF Len(bytes) >= 3 /\ bytes[1] = 239 /\ bytes[2] = 187 /\ bytes[3] = 191
      THEN SubSeq(bytes, 4, Len(bytes)) ELSE bytes

\* C16: a resolve() that reads a file stores, under the next id, the bytes
\* without their leading BOM as the text when these are valid UTF-8, and
\* otherwise returns InvalidUtf8 and stores no source.
ResolveStripsBomAndValidates ==
    [][(ResolveReadStep /\ ret'.disk.ok) =>
          LET text == WithoutBom(ret'.disk.v) IN
          IF IsUtf8(text)
            THEN /\ ret'.res.ok
                 /\ ret'.res.v = Len(sources)
                 /\ sources' = Append(sources, [id |-> ret'.res.v,
                                                path |-> CanonOf(ret'.path),
                                                text |-> text])
            ELSE /\ SameResult(ret'.res, Err("InvalidUtf8"))
                 /\ sources' = sources]_vars

\* C16 witness: EF BB BF "hi" was resolved to the text "hi", of length 2
BomHiResolvedToHi ==
    /\ ret.op = "resolve" /\ ret.res.ok
    /\ ret.disk.ok /\ ret.disk.v = <<239, 187, 191, 104, 105>>
    /\ reads[<<FileOf(ret.path), "source">>] = 1
    /\ ret.res.v < Len(sources)
    /\ source(ret.res.v).text = <<104, 105>>
    /\ Len(source(ret.res.v).text) = 2

\* the fragments of a storage, as (identity, key) pairs
Fragments(storage) ==
    UNION {{<<h, k>> : k \in DOMAIN storage[h]} : h \in DOMAIN storage}

\* C20: write(path, at, data) returns Ok exactly when wslot(path) gave an
\* identity; it then holds data at `at` in that identity's buffer and every
\* other fragment is as before; when wslot(path) gave an error, write
\* returns it and the buffers are as before.
WriteStagesOneFragment ==
    [][(CallStep /\ ret'.op = "write") =>
          LET hash == hashes'[ret'.path]
              at == ret'.arg[1]
              data == ret'.arg[2]
          IN IF hash.ok
               THEN /\ ret'.res.ok
                    /\ Fragments(wpaths') = Fragments(wpaths) \cup {<<hash.v, at>>}
                    /\ wpaths'[hash.v][at] = data
                    /\ \A x \in Fragments(wpaths) :
                         x # <<hash.v, at>> => wpaths'[x[1]][x[2]] = wpaths[x[1]][x[2]]
               ELSE /\ SameResult(ret'.res, hash)
                    /\ wpaths' = wpaths
      ]_vars

\* C20 witness: a write to the directory without parent was refused while
\* fragments were staged
WriteRefusedBuffersKept ==
    /\ ret.op = "write" /\ ~ret.res.ok /\ ret.res.v = "AccessDenied"
    /\ wpaths # Empty

(***************************************************************************)
(* The fonts.                                                              *)
(***************************************************************************)
\* two outcomes of font() are the same font, or both None
SameOption(a, b) == a.ok = b.ok /\ (a.ok => a.v = b.v)

\* C19: the closure of font() runs at most once per slot over the whole
\* run; a call on an initialized slot returns what the slot holds and
\* changes nothing, a call on an empty slot stores what it returns; a
\* stored outcome is never changed or dropped, by reset or anything else;
\* and the outcome is a font or None, never an error.
FontParsedOnce ==
    [][/\ \A i \in DOMAIN inits : inits'[i] <= 1
       /\ \A i \in DOMAIN fonts :
            Initialized(fonts[i].font) => SameOption(fonts'[i].font, fonts[i].font)
       /\ (CallStep /\ ret'.op = "font") =>
            LET i == ret'.arg[1] + 1 IN
            /\ SameOption(ret'.res, fonts'[i].font)
            /\ ret'.res.ok \/ ret'.res.v = "none"
            /\ Initialized(fonts[i].font) =>
                 (SameOption(ret'.res, fonts[i].font) /\ inits' = inits)
      ]_vars

\* C19 witness: in a later pass font() returned the font parsed in an
\* earlier one, although its file is gone
FontOutlivesFile ==
    /\ again /\ ret.op = "font" /\ ret.arg = <<1>> /\ ret.res.ok
    /\ ~exists[FileB] /\ inits[2] = 1

(***************************************************************************)
(* The export.                                                             *)
(***************************************************************************)
\* export() returned Ok in this pass
Exported == Len(trail) >= 2 /\ trail[2] = "exported"

\* the number of decimal digits of n >= 1
NumDigits(n) == CHOOSE w \in 1..6 : 10^(w - 1) <= n /\ n < 10^w

\* the number a sequence of decimal digits denotes
DigitValue(c) == CHOOSE d \in 0..9 : DigitChars[d + 1] = c
RECURSIVE Denotes(_)
Denotes(digits) ==
    IF digits = <<>> THEN 0
    ELSE 10 * Denotes(SubSeq(digits, 1, Len(digits) - 1))
         + DigitValue(digits[Len(digits)])

\* the page number in the name of a file written for "/r/out-{n}.png"
NumberIn(file) == SubSeq(file, 2, Len(file) - 1)

\* C17: with `{n}` in a PNG output path, every file written is the path
\* with `{n}` replaced by a page number from 1 to the page count, in as
\* many digits as the page count has (zero-padded), one file per page
\* saved, and after a successful export there is one for each page.
PagesNumberedToWidth ==
    (numbered(output) /\ IsPng(output) /\ pages >= 1) =>
      /\ \A file \in written :
           /\ Len(file) = NumDigits(pages) + 2
           /\ file[1] = "/r/out-" /\ file[Len(file)] = ".png"
           /\ \A k \in DOMAIN NumberIn(file) :
                \E d \in 0..9 : NumberIn(file)[k] = DigitChars[d + 1]
           /\ Denotes(NumberIn(file)) \in 1..pages
      /\ \A f, g \in written : Denotes(NumberIn(f)) = Denotes(NumberIn(g)) => f = g
      /\ Exported =>
           \A i \in 1..pages : \E file \in written : Denotes(NumberIn(file)) = i

\* C17 witness: 12 pages were exported to 01 .. 12
TwelvePagesTwoDigits ==
    /\ output = PngNumbered /\ pages = 12 /\ Exported
    /\ <<"/r/out-", "0", "1", ".png">> \in written
    /\ <<"/r/out-", "1", "2", ".png">> \in written
    /\ Cardinality(written) = 12

\* C18: a document of several pages and a PNG output path without `{n}`
\* make export fail before it writes: no file is written, the pass ends
\* there and nothing staged is flushed.
SeveralPagesNeedNumbering ==
    (IsPng(output) /\ ~numbered(output) /\ pages > 1 /\ Len(trail) >= 2) =>
      /\ trail = <<"compiled", "export failed">>
      /\ pc = "exit"
      /\ written = {}
      /\ ~exists[FileOut]
      /\ flushed = {}
      /\ \A f \in RegularFiles : exists[f] => content[f] \in {H, <<>>}

\* C18 witness: two pages for "/r/out.png", with a fragment staged
TwoPagesRefused ==
    /\ output = PngOutput /\ pages = 2
    /\ trail = <<"compiled", "export failed">>
    /\ wpaths # Empty /\ written = {} /\ flushed = {}

(***************************************************************************)
(* The events of the watcher.                                              *)
(***************************************************************************)
\* the loop takes an event from the channel
EventStep == nev' = nev + 1 /\ ev'.kind # "error"

\* C11: an access event and a metadata-only modify event are never found
\* relevant and a create event always is, whatever paths the event names
\* and whatever the last pass resolved.
KindDecidesFirst ==
    /\ ev.kind \in {"access", "modify-metadata"} => ~ev.rel
    /\ ev.kind = "create" => ev.rel

\* C11 witness: an access event on the input of the last pass was found
\* not relevant
AccessOnInputIgnored ==
    /\ pc = "drain" /\ ev.kind = "access" /\ ev.paths = {"/r/a"}
    /\ "/r/a" \in deps /\ ~ev.rel /\ ~recompile

\* the identities read-intent resolution obtained since reset
DepIds == {hashes[p].v : p \in {q \in deps : hashes[q].ok}}

\* a path matches the DependencySet: by its key, or by its identity
\* derived again from the disk
Tracked(path) ==
    \/ normalize(path) \in deps
    \/ exists[FileOf(path)] /\ hash128(FileOf(path)) \in DepIds

\* C12 as stated: a content-modify event is found relevant exactly when
\* one of its paths matches what read-intent resolution recorded in the
\* last pass.
ModifyRelevantIffTracked ==
    [][(EventStep /\ ev'.kind = "modify-data") =>
          (ev'.rel <=> \E path \in ev'.paths : Tracked(path))]_vars

\* C13 as stated: a rename event is found relevant only when one of its
\* paths matches what read-intent resolution recorded in the last pass.
RenameRelevantOnlyIfTracked ==
    [][(EventStep /\ ev'.kind = "modify-name") =>
          (ev'.rel => \E path \in ev'.paths : Tracked(path))]_vars

\* C13 amended: a rename event is always found relevant, whatever its
\* paths.
RenameAlwaysRelevant == ev.kind = "modify-name" => ev.rel

\* C13 witness: a rename of a file the last pass never asked for made the
\* batch dirty
RenameOfUntrackedRelevant ==
    /\ pc = "drain" /\ nev = 1 /\ ev.kind = "modify-name" /\ ev.paths = {"b"}
    /\ ~Tracked("b") /\ "b" \notin DOMAIN hashes
    /\ ev.rel /\ recompile

\* C14: when the drain of a batch ends (the watcher having reported no
\* failure, which would end the command), a pass is started exactly when an
\* event of the batch was kept and found relevant, however many were; a
\* pass is started by nothing else, and once started it is run, not
\* started again.
OnePassPerDirtyBatch ==
    [][/\ (pc = "drain" /\ pc' \notin {"drain", "exit"}) =>
            /\ pc' \in {"boot", "watch"}
            /\ pc' = "boot" <=> nrel > 0
       /\ (pc # "boot" /\ pc' = "boot") => pc = "drain"
       /\ (pc = "boot" /\ pc' # "boot") => pc' = "main"
      ]_vars

\* C14 witness: a batch of two relevant events is about to start its pass
TwoRelevantOnePass ==
    pc = "boot" /\ again /\ nev = 2 /\ nrel = 2

\* every path of the event handled last is the output file
OnlyOutput(paths_) == \A path \in paths_ : path = OutPath /\ exists[FileOut]

\* C15: an event all of whose paths are the output file changes nothing
\* in the loop's decision, whatever its kind, so that a batch of such
\* events starts no pass.
OutputEventsDiscarded ==
    [][(EventStep /\ OnlyOutput(ev'.paths)) =>
          /\ recompile' = recompile
          /\ nrel' = nrel]_vars

\* C15 witness: a create event on the written output left the batch clean
CreateOfOutputDiscarded ==
    /\ pc = "drain" /\ ev.kind = "create" /\ ev.paths = {OutPath}
    /\ exists[FileOut] /\ ev.same /\ ~recompile /\ nev = 1

(***************************************************************************)
(* The date.                                                               *)
(***************************************************************************)
\* C21: between two resets today() computes at most one date: once the
\* cell holds a date every call returns it, whatever utc_offset it is given
\* and whatever the clock shows, and computes nothing; reset empties the
\* cell, and a call that finds it empty computes the date from the clock
\* and the offset it is given.
TodayOncePerPass ==
    [][/\ ndates' <= 1
       /\ (today.ok /\ ~ResetStep) => SameOption(today', today)
       /\ ResetStep => (~today'.ok /\ ndates' = 0)
       /\ (CallStep /\ ret'.op = "today") =>
            IF today.ok
              THEN /\ SameOption(ret'.res, today)
                   /\ ndates' = ndates
              ELSE /\ SameOption(ret'.res, from_ymd(datetime(ret'.arg[1])))
                   /\ SameOption(today', ret'.res)
      ]_vars

\* C21 witness: today(Some(1)) an hour before midnight returned the date
\* an earlier call had computed, not the next day
CachedDateDespiteOffset ==
    /\ ret.op = "today" /\ ret.arg[1].some /\ ret.arg[1].hours = 1
    /\ clock = 23 /\ ndates = 1
    /\ ret.res.ok /\ ret.res.v = 0 /\ today.ok /\ today.v = 0

(***************************************************************************)
(* The paths recorded for the loop.                                        *)
(***************************************************************************)
\* a resolve() or read() call, or the resolution of the input
ReadIntentStep == ret'.op \in {"resolve", "read"} /\ (CallStep \/ pc = "main")

\* the kinds of event relevant() decides by the paths
PathKinds == {"any", "modify-any", "modify-data", "remove"}

\* C22: after a resolve() or read() call the path it was given is a key of
\* hashes, holding the identity or the failure of the resolution; when the
\* resolution was computed and the path could be canonicalized, the
\* canonical path is a key too, with the same value; short of a reset no
\* key is dropped or changed; and an event decided by its paths that names
\* a recorded path is found relevant, whether the resolution had failed or
\* not.
ResolutionsRecorded ==
    [][/\ ReadIntentStep =>
            LET p == ret'.path IN
            /\ p \in DOMAIN hashes'
            /\ ~hashes'[p].ok => SameResult(ret'.res, hashes'[p])
            /\ (p \notin DOMAIN hashes /\ exists[FileOf(p)]) =>
                 /\ normalize(CanonOf(p)) \in DOMAIN hashes'
                 /\ SameResult(hashes'[normalize(CanonOf(p))], hashes'[p])
       /\ deps' \subseteq DOMAIN hashes'
       /\ ~ResetStep =>
            \A q \in DOMAIN hashes :
               q \in DOMAIN hashes' /\ SameResult(hashes'[q], hashes[q])
       /\ (EventStep /\ ev'.kind \in PathKinds
              /\ \E path \in ev'.paths : path \in deps) => ev'.rel
      ]_vars

\* C22 witness: "b" was asked for and not found, only the raw path was
\* recorded, and a modify event naming "b" was found relevant
FailedResolutionTracked ==
    /\ pc = "drain" /\ ev.kind = "modify-data" /\ ev.paths = {"b"}
    /\ "b" \in DOMAIN hashes /\ ~hashes["b"].ok /\ intent["b"] = "R"
    /\ "/r/b" \notin DOMAIN hashes
    /\ "b" \in deps /\ ev.rel /\ recompile

\* C23 as stated: the keys of hashes are paths that read-intent resolution
\* recorded since the last reset, and a content-modify event none of whose
\* paths matches such a record is not found relevant.
WriteOnlyPathsUntracked ==
    /\ DOMAIN hashes \subseteq deps
    /\ (ev.kind = "modify-data" /\ \A path \in ev.paths : ~Tracked(path))
         => ~ev.rel

(***************************************************************************)
(* The passes of the loop.                                                 *)
(***************************************************************************)
\* compile_once is running
InPass == pc \in {"boot", "main", "eval", "export", "flush"}

\* C24 as stated: a pass the loop started ends, however it went, with
\* comemo::evict and the loop waiting for events again; the command ends
\* only when the watcher reports a failure.
PassAlwaysReturnsToWaiting ==
    [][/\ (InLoop /\ InPass /\ ~InPass') => (pc' = "watch" /\ evicted')
       /\ (Watching /\ pc' = "exit") => ev'.kind = "error"
      ]_vars

\* the channel got one more item at its end
Sent == Len(queue') = Len(queue) + 1 /\ SubSeq(queue', 1, Len(queue)) = queue

\* C25 as stated: a pass is started only when none is running; an event
\* sent while a pass runs is put at the end of the channel and changes
\* nothing of the pass; items leave the channel only at its head, taken by
\* the loop between passes, which examines them; and an event that is in
\* the channel while a pass runs is examined by the loop afterwards.
QueuedEventsExamined ==
    /\ [][/\ (pc # "boot" /\ pc' = "boot") => ~InPass
          /\ (InPass /\ queue' # queue) =>
               /\ Sent
               /\ UNCHANGED <<pc, disk, world, document, trail, flushed, ret>>
          /\ (queue' # queue /\ ~Sent) =>
               /\ queue' = Tail(queue)
               /\ ~InPass
               /\ ev'.kind = Head(queue).kind /\ ev'.paths = Head(queue).paths
         ]_vars
    /\ (InPass /\ queue # <<>>) ~> (pc = "drain" /\ ev.kind # "none")

\* C26 as stated: the drain of a batch ends although events keep
\* arriving, so that a batch holding a relevant event is followed by a pass.
RelevantEventLeadsToPass == (pc = "drain" /\ recompile) ~> (pc = "boot")

(***************************************************************************)
(* What reset leaves in place.                                             *)
(***************************************************************************)
\* a write() call that staged a fragment for identity h at key k
WriteAt(h, k) ==
    /\ CallStep /\ ret'.op = "write" /\ ret'.res.ok
    /\ hashes'[ret'.path].v = h /\ ret'.arg[1] = k

\* C27: reset changes neither the font slots nor the staging buffers, and
\* a staged fragment stays in its identity's buffer, with its payload,
\* through every step but a write() that stages at the same identity and key.
ResetKeepsFontsAndStaging ==
    [][/\ ResetStep =>
            /\ hashes' = Empty /\ paths' = Empty /\ sources' = <<>>
            /\ fonts' = fonts
            /\ wpaths' = wpaths
       /\ \A x \in Fragments(wpaths) :
            /\ x \in Fragments(wpaths')
            /\ ~WriteAt(x[1], x[2]) => wpaths'[x[1]][x[2]] = wpaths[x[1]][x[2]]
      ]_vars

\* C27 witness: a later pass has just been reset; the fragment staged and
\* the font parsed in an earlier pass are still there
StagedFragmentSurvivesReset ==
    /\ pc = "main" /\ again /\ hashes = Empty /\ paths = Empty
    /\ Fragments(wpaths) # {}
    /\ fonts[2].font.ok /\ inits[2] = 1

(***************************************************************************)
(* What a flush writes after several passes.                               *)
(***************************************************************************)
\* write(world) runs
FlushStep == pc = "flush" /\ pc' # "flush"

\* some path resolved since the last reset, by slot() or wslot(), maps to h
ResolvedSinceReset(h) ==
    \E p \in DOMAIN hashes : hashes[p].ok /\ hashes[p].v = h

\* C28: a flush writes for an identity only if a path resolved since the
\* last reset, under either intent, maps to it, and then writes all the
\* fragments its buffer holds, whichever pass staged them; it leaves alone
\* the file of a buffer whose identity no resolved path maps to; and a
\* flush that succeeds has written every buffer whose identity is resolved.
FlushWritesResolvedBuffers ==
    [][FlushStep =>
          /\ \A w \in flushed' :
               /\ w.h \in DOMAIN wpaths
               /\ ResolvedSinceReset(w.h)
               /\ w.bytes = AscendingConcat(w.h, DOMAIN wpaths[w.h])
               /\ \A k \in DOMAIN wpaths[w.h] : wpaths[w.h][k] = staged[<<w.h, k>>]
          /\ \A h \in DOMAIN wpaths :
               ~ResolvedSinceReset(h) =>
                 /\ \A w \in flushed' : w.h # h
                 /\ \A f \in RegularFiles :
                      hash128(f) = h =>
                        exists'[f] = exists[f] /\ content'[f] = content[f]
          /\ trail'[Len(trail')] = "flush" =>
               \A h \in DOMAIN wpaths :
                  ResolvedSinceReset(h) =>
                    \E w \in flushed' :
                       w.h = h /\ exists'[w.file] /\ content'[w.file] = w.bytes
      ]_vars

\* C28 witness: a pass that only read a file flushed the fragment an
\* earlier pass had staged for it
StaleFragmentFlushedAfterRead ==
    /\ again /\ ret.op = "read" /\ ret.res.ok
    /\ \A f \in RegularFiles : truncs[f] = 0
    /\ \A p \in DOMAIN hashes : intent[p] = "R"
    /\ \E w \in flushed :
         /\ w.file = FileOf(ret.path) /\ w.bytes # <<>>
         /\ content[w.file] = w.bytes

\* C29 as stated: a write() to a path that has a parent resolves the path
\* under write intent whatever the cache holds for it: it creates or
\* truncates the file and returns Ok.
WriteResolvesAfresh ==
    [][(CallStep /\ ret'.op = "write" /\ HasParent(ret'.path)) =>
          LET f == FileOf(ret'.path) IN
          /\ ret'.res.ok
          /\ exists'[f]
          /\ truncs'[f] = truncs[f] + 1
      ]_vars

\* the calls whose results are read-side results of a pass
ReadSideOps == {"resolve", "read", "today"}

\* the last call returned what the same call returned on the world
\* constructed at the last reset: the same identity for the path, the same
\* bytes, date or error, the same source id standing for the same text
AgreesWithFresh ==
    /\ ret.op \in ReadSideOps => SameResult(ret.res, fresh.res)
    /\ ret.op \in {"resolve", "read"} =>
         /\ ret.path \in DOMAIN fresh.hashes
         /\ SameResult(hashes[ret.path], fresh.hashes[ret.path])
    /\ (ret.op = "resolve" /\ ret.res.ok) =>
         /\ ret.res.v < Len(sources)
         /\ fresh.res.ok /\ fresh.res.v < Len(fresh.sources)
         /\ source(ret.res.v) = fresh.sources[fresh.res.v + 1]

\* C30 as stated: whatever earlier passes did, every read-side result of a
\* pass (identity, source id, text, bytes, error, date) is the one the same
\* calls give on a freshly constructed world.
PassEqualsFreshWorld == pc = "eval" => AgreesWithFresh

\* C30: the read-side results of a pass are those of the same calls on a
\* freshly constructed world, whatever earlier passes did and whether they
\* failed, as long as the pass asks for no font that an earlier pass has
\* already loaded (the fresh world reads that font's file, the world does
\* not).
PassEqualsFreshWorldBarringFonts ==
    (pc = "eval" /\ fresh.extra = 0) => AgreesWithFresh

\* C30 witness: in a pass that follows a failed pass which loaded the font
\* file, read() returns the bytes the file has now
ReadAfterFailedPass ==
    /\ again /\ ~exists[FileOut] /\ pc = "eval"
    /\ inits[2] = 1 /\ fresh.extra = 0
    /\ ret.op = "read" /\ ret.res.ok /\ ret.res.v = Bad
    /\ fresh.res.ok /\ fresh.res.v = Bad

\* SystemWorld::source(id) of the arena that is not spelled out: the index
\* of the source it returns
source_index(id) == id

\* C31 as stated: in every reachable state every SourceId held by a slot
\* is smaller than the number of stored sources, source(id) returns the
\* source that was pushed for the slot's file, and the ids are allocated
\* 0, 1, 2, ... in the order of insertion, from 0 again after reset.
ArenaAgreesWithSlots ==
    \A h \in DOMAIN issued :
       /\ issued[h].id < nsources
       /\ source_index(issued[h].id) = issued[h].at
       /\ issued[h].id = issued[h].at

\* C32 as stated: within a pass no two files that decoded hold the same
\* SourceId, however many sources the pass has resolved.
DistinctFilesDistinctIds ==
    \A g, h \in DOMAIN issued : g # h => issued[g].id # issued[h].id

\* compile_once returns Ok(true): the flush, its last step, succeeds
PassSucceeds == pc = "flush" /\ trail'[Len(trail')] = "flush"

\* C33: when opening the output is requested, open_file is called at most
\* once over the run, in the step that ends a pass that compiled without
\* errors and whose export and flush succeeded, be it the initial pass or
\* one the loop started, and that pass is the first such pass (every such
\* pass of a run that has not opened the output yet opens it); it is never
\* called after a pass that failed, nor when opening was not requested.
OpenedOnceAfterFirstSuccess ==
    [][/\ Len(opens') <= 1
       /\ opens' # opens =>
            /\ asked /\ opens = <<>> /\ PassSucceeds
            /\ opens' = <<again>>
       /\ (PassSucceeds /\ asked /\ opens = <<>>) => Len(opens') = 1
       /\ ~asked => opens' = <<>>
      ]_vars

\* C33 witness: the first pass did not succeed, a pass started by the loop
\* did, and the output was opened after it
OpenedAfterWatchPass ==
    /\ asked /\ ~open /\ opens = <<TRUE>>
    /\ again /\ pc = "watch"

\* an extension in ASCII lower case
Lower(ext) ==
    CASE ext \in {"ttf", "TTF", "Ttf"} -> "ttf"
      [] ext \in {"otf", "oTF"} -> "otf"
      [] ext = "ttc" -> "ttc"
      [] ext = "OTC" -> "otc"
      [] OTHER -> ext

\* the files of the directories that hold a face, as (path, extension)
FontFiles ==
    {<<EntryPath(SystemDir, i, dirs.system[i]), dirs.system[i].ext>> :
        i \in {j \in DOMAIN dirs.system : dirs.system[j].faces > 0}}
    \cup {<<EntryPath(UserDir, i, dirs.user[i]), dirs.user[i].ext>> :
        i \in {j \in DOMAIN dirs.user : dirs.user[j].faces > 0}}

\* the place of a slot in the order of search(): system directories,
\* embedded fonts, user directories
SearchRank(slot) ==
    IF slot.path = "" THEN 1
    ELSE IF Len(slot.path) >= Len(SystemDir)
            /\ SubSeq(slot.path, 1, Len(SystemDir)) = SystemDir THEN 0
    ELSE 2

\* the slots are in the order of search(), and entry i of the book
\* describes slot i
BookAlignedInOrder ==
    /\ \A i, j \in DOMAIN fonts : i < j => SearchRank(fonts[i]) <= SearchRank(fonts[j])
    /\ Len(book) = Len(fonts)
    /\ \A i \in DOMAIN fonts : book[i] = FontInfoOf(fonts[i].path, fonts[i].index)

\* C34 as stated: the catalog indexes a font file exactly when its
\* extension, compared case-insensitively, is ttf, otf, ttc or otc; it
\* visits system directories, embedded fonts and user directories in this
\* order; and entry i of the book describes font slot i.
CatalogIndexesAnyCase ==
    /\ stage = "done" =>
         \A f \in FontFiles :
            (\E i \in DOMAIN fonts : fonts[i].path = f[1])
              <=> Lower(f[2]) \in {"ttf", "otf", "ttc", "otc"}
    /\ BookAlignedInOrder

====
